---------------------------- MODULE Spec2Model ----------------------------
(***************************************************************************)
(* A model of the fadecandy bridge of karlmutch/mawt: the status           *)
(* subscriber goroutine of StartFadeCandy, FadeCandy.run (the render       *)
(* loop), FadeCandy.RunLoop (the frame streamer), FadeCandy.Send and       *)
(* sendErr, with the channels statusC, errorC and quitC they share, and    *)
(* the supervising goroutine of EntryPoint in cmd/mawt.                    *)
(***************************************************************************)
EXTENDS Integers, Sequences, FiniteSets, TLC

(***************************************************************************)
(* Bounds of the model.                                                    *)
(***************************************************************************)
\* Ticks of run whose sampled fingerprints are logged.
MaxTicks == 5
\* Sends of RunLoop whose outcomes are logged.
MaxSends == 5
\* Longest strand whose messages are built from every buffer.
MaxStrand == 2
\* Longest of the short strands built next to the strands at the uint16 limit.
MaxShortStrand == 10

(***************************************************************************)
(* Program constants.                                                      *)
(***************************************************************************)
\* statusC := make(chan *PortalMsg, 1)
StatusCap == 1
\* errorC := make(chan errors.Error, 1)
ErrorCap == 1
\* refresh := time.Duration(30 * time.Millisecond)
Fast == 30
\* refresh = time.Duration(5 * time.Second), in milliseconds
Slow == 5000

\* A nil error or client.
Nil == "nil"

\* A pointer is the empty sequence (nil) or holds the value it points to.
NilPtr == <<>>
Ptr(x) == <<x>>
Deref(p) == p[1]

(***************************************************************************)
(* Status values.  A Status is a struct; two of its fields are kept.  The  *)
(* zero value stands for the empty snapshot (a nil *Status is copied and   *)
(* hashed as the zero-value snapshot).                                     *)
(***************************************************************************)
EmptyStatus == [faction |-> 0, level |-> 0]

\* Status.DeepCopy: a fresh value holding a copy of every field.
DeepCopy(s) == [faction |-> s.faction, level |-> s.level]

\* A PortalMsg is a record of the Home flag and a Status; msg is a pointer
\* to one.


(***************************************************************************)
(* Fingerprints.  structhash.Md5(copied, 1) serialises the struct with its *)
(* version and digests the text; the digest is a non-empty byte string     *)
(* determined by the field values.  It is kept as the bytes of the         *)
(* versioned serialisation.                                                *)
(***************************************************************************)
Md5(s, version) == <<version, 16 * s.faction + s.level>>

\* bytes.Compare: -1, 0 or 1 by lexicographic order.
RECURSIVE BytesCompare(_, _)
BytesCompare(a, b) ==
    IF a = <<>> /\ b = <<>> THEN 0
    ELSE IF a = <<>> THEN -1
    ELSE IF b = <<>> THEN 1
    ELSE IF Head(a) < Head(b) THEN -1
    ELSE IF Head(a) > Head(b) THEN 1
    ELSE BytesCompare(Tail(a), Tail(b))

VARIABLES
    env,            \* the environment of this run, fixed at start
    quitC,          \* TRUE once quitC is closed (the shutdown signal)
    statusC,        \* buffered messages of statusC
    statusCclosed,  \* TRUE once close(statusC) has run
    status,         \* LastStatus.status, the cached snapshot
    mutex,          \* holder of the LastStatus mutex: "none", "sub" or "run"
    subPc,          \* position of the subscriber goroutine
    msg,            \* the subscriber's local msg
    runPc,          \* position of FadeCandy.run
    copied,         \* run's local copied
    last,           \* run's local last
    oc,             \* fc.oc: "client" when connected, Nil otherwise
    errorC,         \* buffered errors of errorC
    errorCclosed,   \* TRUE once close(errorC) has run
    rlPc,           \* position of FadeCandy.RunLoop
    refresh,        \* RunLoop's local refresh
    deviceStrands,  \* RunLoop's local deviceStrands
    sweep,          \* the <<device, strand>> iterations left in the sweep
    m,              \* RunLoop's local m, the last message built
    crashed,        \* TRUE once a goroutine has panicked (the process is gone)
    stderr,         \* the last error written to the local fallback
    lastHome,       \* history: Status of the last consumed message with Home set
    committed,      \* history: the snapshot last stored completely in the cache
    ticks,          \* history: fingerprints sampled by the first ticks of run
    renders,        \* history: render invocations during the logged ticks
    connects,       \* history: calls of fc.oc.Connect
    connReports,    \* history: reports of the connection failure
    sends,          \* history: outcomes of the first calls of Send by RunLoop
    lastSend,       \* history: result of the last call of Send
    strandData,     \* history: the buffer the last message was built from
    attempts,       \* history: sends attempted per strand in the current sweep
    dataErrs,       \* history: strands whose GetStrandData failed in the sweep
    rlErr,          \* RunLoop's result err, Nil until it returns an error
    advanced,       \* history: TRUE once sr.ProcessFrame has been called
    rendered,       \* history: the snapshot last passed to test8LED
    supPc,          \* position of EntryPoint's supervising goroutine
    entryQuitC,     \* TRUE once the quitC handed to EntryPoint is closed
    closes          \* history: executions of close(quitC) on that channel

vars == <<env, quitC, statusC, statusCclosed, status, mutex, subPc, msg, runPc,
          copied, last, oc, errorC, errorCclosed, rlPc, refresh,
          deviceStrands, sweep, m, crashed, stderr, lastHome, committed,
          ticks, renders, connects, connReports, sends, lastSend, strandData,
          attempts, dataErrs, rlErr, advanced, rendered, supPc, entryQuitC,
          closes>>

subVars == <<statusC, statusCclosed, subPc, msg, lastHome>>
cacheVars == <<status, mutex, committed>>
runVars == <<runPc, copied, last, oc, ticks, renders, connects, connReports,
             rendered>>
rlVars == <<rlPc, refresh, deviceStrands, sweep, m, sends, lastSend,
            strandData, attempts, dataErrs, rlErr, advanced>>
entryVars == <<supPc, entryQuitC, closes>>
errVars == <<errorC, errorCclosed, stderr, crashed>>

(***************************************************************************)
(* Strand buffers and device messages.                                     *)
(***************************************************************************)
\* An element of a strand buffer is a color.RGBA of four 8-bit components.
Components == {0, 1, 255}
Pixels == [R : Components, G : Components, B : Components, A : Components]

\* color.RGBA.RGBA(): each 8-bit component widened to 16 bits (c | c << 8).
RGBA(c) == [r |-> c.R * 257, g |-> c.G * 257, b |-> c.B * 257, a |-> c.A * 257]

\* The conversions uint8(x) and uint16(x).
Uint8(x) == x % 256
Uint16(x) == x % 65536

\* Faulty variant: alpha is ignored.
PixelColorNoAlpha(rgba) ==
    LET c == RGBA(rgba) IN <<Uint8(c.r), Uint8(c.g), Uint8(c.b)>>

\* The triple written for one element: black when alpha is 0, else r, g, b.
PixelColor(rgba) ==
    LET c == RGBA(rgba)
        r == IF c.a = 0 THEN 0 ELSE c.r
        g == IF c.a = 0 THEN 0 ELSE c.g
        b == IF c.a = 0 THEN 0 ELSE c.b
    IN  <<Uint8(r), Uint8(g), Uint8(b)>>

\* m.SetPixelColor(i, r, g, b) for every element in order: the flat data,
\* where the bytes of element i are at 3 * i - 2 .. 3 * i (counted from 1).
SetPixelColors(data) ==
    [k \in 1..(3 * Len(data)) |->
        PixelColor(data[(k + 2) \div 3])[((k - 1) % 3) + 1]]

\* opc.NewMessage(0), SetLength(uint16(len(strandData) * 3)) and the pixels.
NewMessage(data) ==
    [Channel |-> 0, Length |-> Uint16(Len(data) * 3), Data |-> SetPixelColors(data)]

\* Faulty variant: Send does not test fc.oc.
SendNoClientTest(client, message, transportOK) ==
    IF message = NilPtr
    THEN [err |-> "invalid message", transport |-> FALSE]
    ELSE IF ~transportOK
    THEN [err |-> "transport", transport |-> TRUE]
    ELSE [err |-> Nil, transport |-> TRUE]

(***************************************************************************)
(* FadeCandy.Send: the error returned and whether the transport was used.  *)
(* transportOK is the outcome fc.oc.Send would have.                       *)
(***************************************************************************)
Send(client, message, transportOK) ==
    IF client = Nil
    THEN [err |-> "fadecandy server not online", transport |-> FALSE]
    ELSE IF message = NilPtr
    THEN [err |-> "invalid message", transport |-> FALSE]
    ELSE IF ~transportOK
    THEN [err |-> "transport", transport |-> TRUE]
    ELSE [err |-> Nil, transport |-> TRUE]

(***************************************************************************)
(* Channels.  A send on a buffered channel proceeds when the buffer has    *)
(* room; the consumer of errorC is the Receive action.                     *)
(***************************************************************************)
CanSend(buf, cap) == Len(buf) < cap

(***************************************************************************)
(* The physical topology GetStrands returns: per device, the element count *)
(* of each strand; and the order in which the sweep visits the strands.    *)
(***************************************************************************)
RECURSIVE Iterations(_, _, _)
Iterations(topo, d, s) ==
    IF d > Len(topo) THEN <<>>
    ELSE IF s > Len(topo[d]) THEN Iterations(topo, d + 1, 1)
    ELSE <<<<d, s>>>> \o Iterations(topo, d, s + 1)

StrandIds(topo) == {ds \in (1..Len(topo)) \X (1..2) : ds[2] <= Len(topo[ds[1]])}

StrandLen(topo, ds) == topo[ds[1]][ds[2]]

NoAttempts == [ds \in (1..2) \X (1..2) |-> 0]

\* The strand buffers GetStrandData may return for a strand of n elements.
StrandBuffers(n) == [1..n -> env.pixels]

(***************************************************************************)
(* The LastStatus mutex.                                                   *)
(***************************************************************************)
\* Faulty variant: Lock does not wait for the holder.
LockNoWait(g) == mutex' = g

Lock(g) == mutex = "none" /\ mutex' = g

Unlock(g) == mutex' = "none"

(***************************************************************************)
(* Shutdown and the environment: the publisher of status messages and the  *)
(* observer of errorC.                                                     *)
(***************************************************************************)
\* The shutdown signal is raised: quitC is closed.
Quit ==
    /\ ~crashed /\ ~quitC
    /\ quitC' = TRUE
    /\ UNCHANGED <<env, entryVars, subVars, cacheVars, runVars, rlVars, errVars>>

\* The publisher hands a message to the subscriber's channel.
Publish ==
    /\ ~crashed /\ ~statusCclosed
    /\ CanSend(statusC, StatusCap)
    /\ \E pm \in env.msgs : statusC' = Append(statusC, pm)
    /\ UNCHANGED <<env, entryVars, quitC, statusCclosed, subPc, msg, lastHome, cacheVars,
                   runVars, rlVars, errVars>>

\* The observer of errorC takes an error.
Receive ==
    /\ ~crashed /\ errorC # <<>>
    /\ errorC' = Tail(errorC)
    /\ UNCHANGED <<env, entryVars, quitC, subVars, cacheVars, runVars, rlVars,
                   errorCclosed, stderr, crashed>>

(***************************************************************************)
(* The subscriber goroutine of StartFadeCandy.                             *)
(***************************************************************************)
\* Faulty variant: the Home test is missing.
AcceptedAny(pm) == pm # NilPtr

\* if nil == msg { continue }; if msg.Home { ... }
Accepted(pm) == pm # NilPtr /\ Deref(pm).Home

\* case msg := <-statusC, with the nil and Home tests.
SubRecv ==
    /\ ~crashed /\ subPc = "select" /\ statusC # <<>>
    /\ msg' = Head(statusC)
    /\ statusC' = Tail(statusC)
    /\ subPc' = IF Accepted(msg') THEN "lock" ELSE "select"
    /\ lastHome' = IF msg' # NilPtr /\ Deref(msg').Home
                   THEN Ptr(Deref(msg').Status)
                   ELSE lastHome
    /\ UNCHANGED <<env, entryVars, quitC, statusCclosed, cacheVars, runVars, rlVars, errVars>>

\* status.Lock()
SubLock ==
    /\ ~crashed /\ subPc = "lock"
    /\ Lock("sub")
    /\ subPc' = "write1"
    /\ UNCHANGED <<env, entryVars, quitC, statusC, statusCclosed, msg, lastHome, status,
                   committed, runVars, rlVars, errVars>>

\* status.status = msg.Status.DeepCopy(): the first field is stored.
SubWrite1 ==
    /\ ~crashed /\ subPc = "write1"
    /\ status' = [status EXCEPT !.faction = DeepCopy(Deref(msg).Status).faction]
    /\ subPc' = "write2"
    /\ UNCHANGED <<env, entryVars, quitC, statusC, statusCclosed, msg, lastHome, mutex,
                   committed, runVars, rlVars, errVars>>

\* status.status = msg.Status.DeepCopy(): the second field is stored.
SubWrite2 ==
    /\ ~crashed /\ subPc = "write2"
    /\ status' = [status EXCEPT !.level = DeepCopy(Deref(msg).Status).level]
    /\ committed' = DeepCopy(Deref(msg).Status)
    /\ subPc' = "unlock"
    /\ UNCHANGED <<env, entryVars, quitC, statusC, statusCclosed, msg, lastHome, mutex,
                   runVars, rlVars, errVars>>

\* status.Unlock()
SubUnlock ==
    /\ ~crashed /\ subPc = "unlock"
    /\ Unlock("sub")
    /\ subPc' = "select"
    /\ UNCHANGED <<env, entryVars, quitC, statusC, statusCclosed, msg, lastHome, status,
                   committed, runVars, rlVars, errVars>>

\* case <-quitC: return, and the deferred close(statusC).
SubQuit ==
    /\ ~crashed /\ subPc = "select" /\ quitC
    /\ subPc' = "done"
    /\ statusCclosed' = TRUE
    /\ UNCHANGED <<env, entryVars, quitC, statusC, msg, lastHome, cacheVars, runVars,
                   rlVars, errVars>>

(***************************************************************************)
(* FadeCandy.run, the render loop.                                         *)
(***************************************************************************)
\* fc.oc = opc.NewClient(); fc.oc.Connect("tcp", server), and fc.oc = nil
\* when it fails.
RunConnect ==
    /\ ~crashed /\ runPc = "connect"
    /\ connects' = connects + 1
    /\ \/ oc' = "client" /\ runPc' = "spawn"
       \/ oc' = Nil /\ runPc' = "connReport"
    /\ UNCHANGED <<env, entryVars, quitC, subVars, cacheVars, copied, last, ticks,
                   renders, connReports, rendered, rlVars, errVars>>

\* select { case errorC <- err: ; case <-time.After(100ms): Fprintln(Stderr) }
\* A send on a closed channel panics.
Report(err) ==
    IF errorCclosed
    THEN crashed' = TRUE /\ UNCHANGED <<errorC, stderr>>
    ELSE IF CanSend(errorC, ErrorCap)
    THEN errorC' = Append(errorC, err) /\ UNCHANGED <<stderr, crashed>>
    ELSE stderr' = err /\ UNCHANGED <<errorC, crashed>>

\* The report of the connection failure.
RunConnReport ==
    /\ ~crashed /\ runPc = "connReport"
    /\ Report("connect")
    /\ connReports' = connReports + 1
    /\ runPc' = IF crashed' THEN runPc ELSE "spawn"
    /\ UNCHANGED <<env, entryVars, quitC, subVars, cacheVars, copied, last, oc, ticks,
                   renders, connects, rendered, rlVars, errorCclosed>>

\* go fc.RunLoop(errorC, quitC)
RunSpawn ==
    /\ ~crashed /\ runPc = "spawn"
    /\ rlPc' = "GetSeqRunner"
    /\ runPc' = "select"
    /\ UNCHANGED <<env, entryVars, quitC, subVars, cacheVars, copied, last, oc, ticks,
                   renders, connects, connReports, refresh, deviceStrands,
                   sweep, m, sends, lastSend, strandData, attempts, dataErrs,
                   rlErr, advanced, rendered,
                   errVars>>

\* Faulty variant: quitC is looked at between the steps of a tick or sweep.
AtSelectOrBusy(pc) ==
    pc \in {"select", "lock", "read1", "read2", "unlock", "report", "sweep",
            "sendErrStrands", "sendErrData"}

\* The quitC case belongs to the select at the top of the loop, the only
\* place where a loop looks at quitC.
AtSelect(pc) == pc = "select"

\* case <-time.After(refresh)
RunTick ==
    /\ ~crashed /\ runPc = "select"
    /\ runPc' = "lock"
    /\ UNCHANGED <<env, entryVars, quitC, subVars, cacheVars, copied, last, oc, ticks,
                   renders, connects, connReports, rendered, rlVars, errVars>>

\* case <-quitC: return
RunQuit ==
    /\ ~crashed /\ AtSelect(runPc) /\ quitC
    /\ runPc' = "done"
    /\ UNCHANGED <<env, entryVars, quitC, subVars, cacheVars, copied, last, oc, ticks,
                   renders, connects, connReports, rendered, rlVars, errVars>>

\* status.Lock()
RunLock ==
    /\ ~crashed /\ runPc = "lock"
    /\ Lock("run")
    /\ runPc' = "read1"
    /\ UNCHANGED <<env, entryVars, quitC, subVars, status, committed, copied, last, oc,
                   ticks, renders, connects, connReports, rendered, rlVars, errVars>>

\* copied := status.status.DeepCopy(): the first field is read.
RunRead1 ==
    /\ ~crashed /\ runPc = "read1"
    /\ copied' = [copied EXCEPT !.faction = DeepCopy(status).faction]
    /\ runPc' = "read2"
    /\ UNCHANGED <<env, entryVars, quitC, subVars, cacheVars, last, oc, ticks, renders,
                   connects, connReports, rendered, rlVars, errVars>>

\* copied := status.status.DeepCopy(): the second field is read.
RunRead2 ==
    /\ ~crashed /\ runPc = "read2"
    /\ copied' = [copied EXCEPT !.level = DeepCopy(status).level]
    /\ runPc' = "unlock"
    /\ UNCHANGED <<env, entryVars, quitC, subVars, cacheVars, last, oc, ticks, renders,
                   connects, connReports, rendered, rlVars, errVars>>

\* Faulty variant: every tick counts as a change.
HasChangedAlways(previous, hash) == TRUE

\* Faulty variant: only a fingerprint that sorts before the stored one
\* counts as a change.
HasChangedGreater(previous, hash) == BytesCompare(previous, hash) > 0

\* if bytes.Compare(last, hash) != 0
HasChanged(previous, hash) == BytesCompare(previous, hash) # 0

\* Faulty variant: the fingerprint is stored only when the render succeeds.
StoredOnSuccess(previous, hash, failed) == IF failed THEN previous ELSE hash

\* last = hash, placed before the call of test8LED(0.15, copied).
Stored(previous, hash, failed) == hash

\* status.Unlock(), the fingerprint test and, on a change, last = hash and
\* the call of test8LED(0.15, copied), which succeeds or returns an error.
RunUnlock ==
    /\ ~crashed /\ runPc = "unlock"
    /\ Unlock("run")
    /\ LET hash == Md5(copied, 1)
           logged == Len(ticks) < env.tickLog
       IN  /\ ticks' = IF logged THEN Append(ticks, hash) ELSE ticks
           /\ IF HasChanged(last, hash)
              THEN /\ renders' = IF logged THEN renders + 1 ELSE renders
                   /\ rendered' = Ptr(copied)
                   /\ \/ runPc' = "select" /\ last' = Stored(last, hash, FALSE)
                      \/ runPc' = "report" /\ last' = Stored(last, hash, TRUE)
              ELSE /\ runPc' = "select"
                   /\ UNCHANGED <<last, renders, rendered>>
    /\ UNCHANGED <<env, entryVars, quitC, subVars, status, committed, copied, oc,
                   connects, connReports, rlVars, errVars>>

\* select { case errorC <- err.With("url", server): ; case <-time.After(...) }
RunReport ==
    /\ ~crashed /\ runPc = "report"
    /\ Report("render")
    /\ runPc' = IF crashed' THEN runPc ELSE "select"
    /\ UNCHANGED <<env, entryVars, quitC, subVars, cacheVars, copied, last, oc, ticks,
                   renders, connects, connReports, rendered, rlVars, errorCclosed>>

(***************************************************************************)
(* FadeCandy.RunLoop, the frame streamer.                                  *)
(***************************************************************************)
\* Faulty variant: an error at startup does not end RunLoop.
ReturnsNever(err) == FALSE

\* if err != nil { return err }
Returns(err) == err # Nil

\* sr, err := GetSeqRunner(); on an error RunLoop returns it and the
\* deferred close(errorC) runs.
RLGetSeqRunner ==
    /\ ~crashed /\ rlPc = "GetSeqRunner"
    /\ \E err \in {Nil, "GetSeqRunner"} :
         /\ rlErr' = err
         /\ IF Returns(err)
            THEN rlPc' = "done" /\ errorCclosed' = TRUE
            ELSE rlPc' = "GetUniverses" /\ UNCHANGED errorCclosed
    /\ UNCHANGED <<env, entryVars, quitC, subVars, cacheVars, runVars, refresh,
                   deviceStrands, sweep, m, sends, lastSend, strandData,
                   attempts, dataErrs, advanced, errorC, stderr, crashed>>

\* devices, universes, err := GetUniverses(); refresh := 30ms.
RLGetUniverses ==
    /\ ~crashed /\ rlPc = "GetUniverses"
    /\ \E err \in {Nil, "GetUniverses"} :
         /\ rlErr' = err
         /\ IF Returns(err)
            THEN rlPc' = "done" /\ errorCclosed' = TRUE /\ UNCHANGED refresh
            ELSE rlPc' = "select" /\ refresh' = Fast /\ UNCHANGED errorCclosed
    /\ UNCHANGED <<env, entryVars, quitC, subVars, cacheVars, runVars, deviceStrands,
                   sweep, m, sends, lastSend, strandData, attempts,
                   dataErrs, advanced, errorC, stderr, crashed>>

\* Where the loop goes when an iteration of the sweep ends.
AfterStrand(rest) == IF rest = <<>> THEN "select" ELSE "sweep"

\* case <-time.After(refresh): ProcessFrame, UpdateUniverse and GetStrands,
\* which returns a topology or an error.
RLTick ==
    /\ ~crashed /\ rlPc = "select"
    /\ advanced' = TRUE
    /\ attempts' = NoAttempts
    /\ dataErrs' = {}
    /\ \/ \E topo \in env.topologies :
            /\ deviceStrands' = topo
            /\ sweep' = Iterations(topo, 1, 1)
            /\ rlPc' = AfterStrand(sweep')
       \/ /\ deviceStrands' = <<>>
          /\ sweep' = <<>>
          /\ rlPc' = "sendErrStrands"
    /\ UNCHANGED <<env, entryVars, quitC, subVars, cacheVars, runVars, refresh, m, sends,
                   lastSend, strandData, rlErr, errVars>>

\* case <-quitC: return, and the deferred close(errorC).
RLQuit ==
    /\ ~crashed /\ AtSelect(rlPc) /\ quitC
    /\ rlPc' = "done"
    /\ errorCclosed' = TRUE
    /\ UNCHANGED <<env, entryVars, quitC, subVars, cacheVars, runVars, refresh,
                   deviceStrands, sweep, m, sends, lastSend, strandData,
                   attempts, dataErrs, rlErr, advanced, errorC, stderr, crashed>>

\* Faulty variant: a failure earlier in the sweep keeps the slow interval.
PacingAnyFailure(res) ==
    IF res.err # Nil \/ (refresh = Slow /\ attempts # NoAttempts)
    THEN Slow ELSE Fast

\* Faulty variant: a success does not restore the fast interval.
PacingNoReset(res) == IF res.err # Nil THEN Slow ELSE refresh

\* The refresh interval after a call of Send.
Pacing(res) == IF res.err # Nil THEN Slow ELSE Fast

\* Faulty variant: a failed send ends the sweep.
BreakOnError(rest, res) == IF res.err # Nil THEN <<>> ELSE rest

\* The iterations left after a call of Send: continue, whatever the result.
Continue(rest, res) == rest

\* One iteration of the strand loop: a zero-length strand is skipped, a
\* failed GetStrandData is reported, otherwise the message is built and sent.
RLStrand ==
    /\ ~crashed /\ rlPc = "sweep"
    /\ LET ds == Head(sweep)
           strandLen == StrandLen(deviceStrands, ds)
       IN  IF strandLen = 0
           THEN /\ sweep' = Tail(sweep)
                /\ rlPc' = AfterStrand(sweep')
                /\ UNCHANGED <<refresh, m, sends, lastSend, strandData,
                               attempts, dataErrs>>
           ELSE \/ /\ sweep' = Tail(sweep)
                   /\ rlPc' = "sendErrData"
                   /\ dataErrs' = dataErrs \cup {ds}
                   /\ UNCHANGED <<refresh, m, sends, lastSend, strandData,
                                  attempts>>
                \/ \E data \in StrandBuffers(strandLen), transportOK \in BOOLEAN :
                     LET res == Send(oc, Ptr(NewMessage(data)), transportOK)
                     IN  /\ strandData' = data
                         /\ m' = Ptr(NewMessage(data))
                         /\ lastSend' = Ptr(res)
                         /\ sends' = IF Len(sends) < env.sendLog
                                     THEN Append(sends, res.err = Nil)
                                     ELSE sends
                         /\ attempts' = [attempts EXCEPT ![ds] = @ + 1]
                         /\ refresh' = Pacing(res)
                         /\ UNCHANGED dataErrs
                         /\ sweep' = Continue(Tail(sweep), res)
                         /\ rlPc' = AfterStrand(sweep')
    /\ UNCHANGED <<env, entryVars, quitC, subVars, cacheVars, runVars, deviceStrands,
                   rlErr, advanced, errVars>>

\* Faulty variant: no timeout case, the send waits for room in errorC.
sendErrNoTimeout(err) ==
    /\ ~errorCclosed /\ CanSend(errorC, ErrorCap)
    /\ errorC' = Append(errorC, err)
    /\ UNCHANGED <<stderr, crashed>>

\* sendErr: hand the error to errorC or, after 20ms, print it.
sendErr(err) == Report(err)

\* sendErr(errorC, ...) after a failed GetStrands, then continue.
RLSendErrStrands ==
    /\ ~crashed /\ rlPc = "sendErrStrands"
    /\ sendErr("GetStrands")
    /\ rlPc' = IF crashed' THEN rlPc ELSE "select"
    /\ UNCHANGED <<env, entryVars, quitC, subVars, cacheVars, runVars, refresh,
                   deviceStrands, sweep, m, sends, lastSend, strandData,
                   attempts, dataErrs, rlErr, advanced, errorCclosed>>

\* sendErr(errorC, ...) after a failed GetStrandData, then continue.
RLSendErrData ==
    /\ ~crashed /\ rlPc = "sendErrData"
    /\ sendErr("GetStrandData")
    /\ rlPc' = IF crashed' THEN rlPc ELSE AfterStrand(sweep)
    /\ UNCHANGED <<env, entryVars, quitC, subVars, cacheVars, runVars, refresh,
                   deviceStrands, sweep, m, sends, lastSend, strandData,
                   attempts, dataErrs, rlErr, advanced, errorCclosed>>

(***************************************************************************)
(* EntryPoint's supervising goroutine.  quitC here is the channel handed   *)
(* to EntryPoint (entryQuitC); the loops' quitC is ctx.Done(), closed by   *)
(* the deferred cancel().  closes lists who has executed close(quitC).     *)
(***************************************************************************)
\* close(quitC): closing a closed channel panics.
CloseQuitC(who) ==
    /\ closes' = Append(closes, who)
    /\ IF entryQuitC
       THEN crashed' = TRUE /\ UNCHANGED entryQuitC
       ELSE entryQuitC' = TRUE /\ UNCHANGED crashed

\* The caller of EntryPoint closes the quitC it handed over.
ExternalClose ==
    /\ ~crashed
    /\ \A i \in 1..Len(closes) : closes[i] # "caller"
    /\ CloseQuitC("caller")
    /\ UNCHANGED <<env, quitC, supPc, subVars, cacheVars, runVars, rlVars,
                   errorC, errorCclosed, stderr>>

\* case err := <-eC
SupReceive ==
    /\ supPc = "select"
    /\ Receive

\* case <-stopC: the signal is handed to the goroutine waiting in the
\* select.  stopC has no buffer and signal.Notify never waits, so this case
\* is taken only by a select that found quitC open.
SupSignal ==
    /\ ~crashed /\ supPc = "select" /\ ~entryQuitC
    /\ supPc' = "close"
    /\ UNCHANGED <<env, quitC, entryQuitC, closes, subVars, cacheVars,
                   runVars, rlVars, errVars>>

\* logger.Warn("CTRL-C Seen"); close(quitC); return
SupClose ==
    /\ ~crashed /\ supPc = "close"
    /\ CloseQuitC("supervisor")
    /\ supPc' = IF crashed' THEN supPc ELSE "return"
    /\ UNCHANGED <<env, quitC, subVars, cacheVars, runVars, rlVars, errorC,
                   errorCclosed, stderr>>

\* case <-quitC: return
SupQuit ==
    /\ ~crashed /\ supPc = "select" /\ entryQuitC
    /\ supPc' = "return"
    /\ UNCHANGED <<env, quitC, entryQuitC, closes, subVars, cacheVars,
                   runVars, rlVars, errVars>>

\* defer cancel(): ctx.Done(), the quitC of the loops, is closed.
SupReturn ==
    /\ ~crashed /\ supPc = "return"
    /\ quitC' = TRUE
    /\ supPc' = "done"
    /\ UNCHANGED <<env, entryQuitC, closes, subVars, cacheVars, runVars,
                   rlVars, errVars>>

Supervisor == SupReceive \/ SupSignal \/ SupClose \/ SupQuit \/ SupReturn

(***************************************************************************)
(* The state after StartFadeCandy has started its goroutines.              *)
(***************************************************************************)
Start(e) ==
    /\ env = e
    /\ quitC = FALSE
    /\ statusC = <<>>
    /\ statusCclosed = FALSE
    /\ status = EmptyStatus
    /\ mutex = "none"
    /\ subPc = "select"
    /\ msg = NilPtr
    /\ runPc = "connect"
    /\ copied = EmptyStatus
    /\ last = <<>>
    /\ oc = Nil
    /\ errorC = <<>>
    /\ errorCclosed = FALSE
    /\ rlPc = "idle"
    /\ refresh = Fast
    /\ deviceStrands = <<>>
    /\ sweep = <<>>
    /\ m = NilPtr
    /\ crashed = FALSE
    /\ stderr = Nil
    /\ lastHome = NilPtr
    /\ committed = EmptyStatus
    /\ ticks = <<>>
    /\ renders = 0
    /\ connects = 0
    /\ connReports = 0
    /\ sends = <<>>
    /\ lastSend = NilPtr
    /\ strandData = <<>>
    /\ attempts = NoAttempts
    /\ dataErrs = {}
    /\ rlErr = Nil
    /\ advanced = FALSE
    /\ rendered = NilPtr
    /\ supPc = "select"
    /\ entryQuitC = FALSE
    /\ closes = <<>>

Subscriber == SubRecv \/ SubLock \/ SubWrite1 \/ SubWrite2 \/ SubUnlock \/ SubQuit

run == \/ RunConnect \/ RunConnReport \/ RunSpawn \/ RunTick \/ RunQuit
       \/ RunLock \/ RunRead1 \/ RunRead2 \/ RunUnlock \/ RunReport

RunLoop == \/ RLGetSeqRunner \/ RLGetUniverses \/ RLTick \/ RLQuit \/ RLStrand
           \/ RLSendErrStrands \/ RLSendErrData

Next == Quit \/ Publish \/ Receive \/ Subscriber \/ run \/ RunLoop

StatusA == [faction |-> 1, level |-> 1]
StatusB == [faction |-> 0, level |-> 1]

\* The environment of Spec: a nil, a home and a foreign message; one
\* topology with a zero-length strand; one pixel colour; no logs.
SmallEnv ==
    [msgs |-> {NilPtr, Ptr([Home |-> TRUE, Status |-> StatusA]),
               Ptr([Home |-> FALSE, Status |-> StatusB])},
     topologies |-> { << <<1, 0>>, <<1>> >> },
     pixels |-> {[R |-> 1, G |-> 1, B |-> 255, A |-> 0]},
     tickLog |-> 0,
     sendLog |-> 0]

Init == Start(SmallEnv)

Spec == Init /\ [][Next]_vars

(***************************************************************************)
(* The scheduling of the goroutines: a goroutine that can take a step      *)
(* takes one, a timer fires, and a select whose quitC case is ready again  *)
(* and again takes it in the end (select chooses among the ready cases at  *)
(* random).  Nothing obliges the shutdown signal, the publisher or the     *)
(* observer of errorC to act.                                              *)
(***************************************************************************)
Fairness ==
    /\ WF_vars(Subscriber) /\ WF_vars(run) /\ WF_vars(RunLoop)
    /\ SF_vars(SubQuit) /\ SF_vars(RunQuit) /\ SF_vars(RLQuit)

FairSpec == Spec /\ Fairness

(***************************************************************************)
(* The render loop with its ticks logged: home messages with the empty     *)
(* status and another one; nothing observes errorC; RunLoop starts and     *)
(* waits on its timer.                                                     *)
(***************************************************************************)
RenderEnv ==
    [msgs |-> {Ptr([Home |-> TRUE, Status |-> s]) : s \in {EmptyStatus, StatusA}},
     topologies |-> {},
     pixels |-> {},
     tickLog |-> MaxTicks,
     sendLog |-> 0]

InitRender == Start(RenderEnv)

NextRender ==
    \/ Quit \/ Publish \/ Subscriber \/ run
    \/ RLGetSeqRunner \/ RLGetUniverses \/ RLQuit

SpecRender == InitRender /\ [][NextRender]_vars

(***************************************************************************)
(* The frame streamer with its sends logged: every topology; run connects, *)
(* starts RunLoop and waits on its timer; no status message arrives.       *)
(***************************************************************************)
Topologies == { << <<2, 0>>, <<1>> >>, << <<0>>, <<0, 0>> >>, << <<1, 1>> >> }

StreamEnv ==
    [msgs |-> {},
     topologies |-> Topologies,
     pixels |-> {[R |-> 1, G |-> 1, B |-> 255, A |-> 0]},
     tickLog |-> 0,
     sendLog |-> MaxSends]

InitStream == Start(StreamEnv)

NextStream ==
    \/ Quit \/ Receive \/ RunConnect \/ RunConnReport \/ RunSpawn \/ RunQuit
    \/ SubQuit \/ RunLoop

SpecStream == InitStream /\ [][NextStream]_vars

(***************************************************************************)
(* The strand loop with every strand buffer: RunLoop has fetched a         *)
(* topology of one strand and is about to build and send its message,      *)
(* with or without a connection.                                           *)
(***************************************************************************)
MsgEnv ==
    [msgs |-> {},
     topologies |-> { << <<n>> >> : n \in 1..MaxStrand },
     pixels |-> Pixels,
     tickLog |-> 0,
     sendLog |-> 0]

InitMsg ==
    /\ env = MsgEnv
    /\ quitC = FALSE
    /\ statusC = <<>> /\ statusCclosed = FALSE
    /\ status = EmptyStatus /\ mutex = "none" /\ committed = EmptyStatus
    /\ subPc = "select" /\ msg = NilPtr /\ lastHome = NilPtr
    /\ runPc = "select" /\ copied = EmptyStatus /\ last = <<>>
    /\ ticks = <<>> /\ renders = 0
    /\ connects = 1
    /\ \/ oc = "client" /\ connReports = 0 /\ errorC = <<>>
       \/ oc = Nil /\ connReports = 1 /\ errorC = <<"connect">>
    /\ errorCclosed = FALSE /\ crashed = FALSE /\ stderr = Nil
    /\ rlPc = "sweep" /\ refresh = Fast
    /\ deviceStrands \in MsgEnv.topologies
    /\ sweep = Iterations(deviceStrands, 1, 1)
    /\ m = NilPtr /\ sends = <<>> /\ lastSend = NilPtr /\ strandData = <<>>
    /\ attempts = NoAttempts /\ dataErrs = {}
    /\ rlErr = Nil /\ advanced = TRUE /\ rendered = NilPtr
    /\ supPc = "select" /\ entryQuitC = FALSE /\ closes = <<>>

NextMsg == RLStrand \/ RLSendErrData

SpecMsg == InitMsg /\ [][NextMsg]_vars

(***************************************************************************)
(* The strand loop with long strands: buffers of one colour, of every      *)
(* short length and of the lengths around the one where three bytes per    *)
(* element no longer fit the 16-bit length field.                          *)
(***************************************************************************)
\* The least number of elements whose bytes exceed the uint16 range.
WrapLen == (65536 \div 3) + 1

StrandLengths == (1..MaxShortStrand) \cup {WrapLen - 1, WrapLen}

LenEnv ==
    [msgs |-> {},
     topologies |-> { << <<n>> >> : n \in StrandLengths },
     pixels |-> {[R |-> 1, G |-> 1, B |-> 255, A |-> 255]},
     tickLog |-> 0,
     sendLog |-> 0]

InitLen ==
    /\ env = LenEnv
    /\ quitC = FALSE
    /\ statusC = <<>> /\ statusCclosed = FALSE
    /\ status = EmptyStatus /\ mutex = "none" /\ committed = EmptyStatus
    /\ subPc = "select" /\ msg = NilPtr /\ lastHome = NilPtr
    /\ runPc = "select" /\ copied = EmptyStatus /\ last = <<>>
    /\ ticks = <<>> /\ renders = 0
    /\ connects = 1
    /\ \/ oc = "client" /\ connReports = 0 /\ errorC = <<>>
       \/ oc = Nil /\ connReports = 1 /\ errorC = <<"connect">>
    /\ errorCclosed = FALSE /\ crashed = FALSE /\ stderr = Nil
    /\ rlPc = "sweep" /\ refresh = Fast
    /\ deviceStrands \in LenEnv.topologies
    /\ sweep = Iterations(deviceStrands, 1, 1)
    /\ m = NilPtr /\ sends = <<>> /\ lastSend = NilPtr /\ strandData = <<>>
    /\ attempts = NoAttempts /\ dataErrs = {}
    /\ rlErr = Nil /\ advanced = TRUE /\ rendered = NilPtr
    /\ supPc = "select" /\ entryQuitC = FALSE /\ closes = <<>>

NextLen == RLStrand \/ RLSendErrData \/ Receive

SpecLen == InitLen /\ [][NextLen]_vars

(***************************************************************************)
(* The entry point with the bridge: the supervising goroutine, the caller  *)
(* that may close quitC, and the goroutines of StartFadeCandy, which stop  *)
(* on ctx.Done(); run does not tick.                                       *)
(***************************************************************************)
InitEntry == Start(SmallEnv)

NextEntry ==
    \/ ExternalClose \/ Supervisor
    \/ RunConnect \/ RunConnReport \/ RunSpawn \/ RunQuit
    \/ SubQuit \/ RunLoop

SpecEntry == InitEntry /\ [][NextEntry]_vars

(***************************************************************************)
(* The program while no shutdown is signalled: quitC stays open, so the    *)
(* quitC cases are left out; no status message arrives.  The goroutines of *)
(* run and RunLoop are scheduled and their timers fire; nothing obliges    *)
(* the observer of errorC to receive.                                      *)
(***************************************************************************)
SustainEnv ==
    [msgs |-> {},
     topologies |-> { << <<1, 0>>, <<1>> >>, << <<0>> >> },
     pixels |-> {[R |-> 1, G |-> 1, B |-> 255, A |-> 0]},
     tickLog |-> 0,
     sendLog |-> 0]

InitSustained == Start(SustainEnv)

NextSustained ==
    \/ Receive
    \/ RunConnect \/ RunConnReport \/ RunSpawn \/ RunTick
    \/ RunLock \/ RunRead1 \/ RunRead2 \/ RunUnlock \/ RunReport
    \/ RLGetSeqRunner \/ RLGetUniverses \/ RLTick \/ RLStrand
    \/ RLSendErrStrands \/ RLSendErrData

SpecSustained ==
    /\ InitSustained /\ [][NextSustained]_vars
    /\ WF_vars(run) /\ WF_vars(RunLoop)

(***************************************************************************)
(* Claims.                                                                 *)
(***************************************************************************)
\* The ticks at which the sampled fingerprint differs from the one before
\* (the first tick counts).
Transitions(fps) ==
    Cardinality({i \in 1..Len(fps) : i = 1 \/ fps[i] # fps[i - 1]})

FpA == Md5(EmptyStatus, 1)
FpB == Md5(StatusA, 1)

\* C1: over the logged ticks the number of render invocations equals the
\* number of fingerprint transitions, the first tick counting as one; ticks
\* observing [A, A, B, B, A] cause exactly 3 renders.
C1_RenderPerTransition ==
    /\ renders = Transitions(ticks)
    /\ ticks = <<FpA, FpA, FpB, FpB, FpA>> => renders = 3

C1_Witness == ticks = <<FpA, FpA, FpB, FpB, FpA>> /\ renders = 3

\* C2: whenever the subscriber is between messages, the cache holds the
\* status of the last consumed message with Home set, or the empty status
\* if there was none: nil and foreign messages change nothing.
C2_CacheHoldsLastHome ==
    subPc \in {"select", "done"} =>
        status = IF lastHome = NilPtr THEN EmptyStatus ELSE Deref(lastHome)

\* A foreign message with another status was consumed after a home update.
C2_Witness ==
    /\ subPc = "select" /\ lastHome # NilPtr
    /\ msg # NilPtr /\ ~Deref(msg).Home
    /\ Deref(msg).Status # status

\* C3: the interval is fast before any send, slow right after a failed send
\* and fast right after a successful one; after three failures and a success
\* it is fast.
C3_PacingFollowsLastSend ==
    /\ Len(sends) < env.sendLog =>
         refresh = IF sends = <<>> \/ sends[Len(sends)] THEN Fast ELSE Slow
    /\ \A n \in 1..3 : sends = [i \in 1..n |-> FALSE] => refresh = Slow
    /\ sends = <<FALSE, FALSE, FALSE, TRUE>> => refresh = Fast

C3_Witness == sends = <<FALSE, FALSE, FALSE, TRUE>> /\ refresh = Fast

AllDone ==
    /\ subPc = "done" /\ runPc = "done" /\ rlPc = "done"
    /\ statusCclosed /\ errorCclosed

\* C4: once the shutdown signal is raised, the subscriber, run and RunLoop
\* each terminate in the end, statusC and errorC closed by their owners.
C4_ShutdownTerminates == quitC ~> AllDone

\* C5: no send is ever attempted on a closed channel (the panic of the
\* goroutine that attempts it is the only way the process crashes).
C5_NoSendOnClosed == ~crashed

\* C6: a read of the cache that has copied every field holds the snapshot
\* last stored completely, not a mixture of two updates.
C6_NoTornRead == runPc = "unlock" => copied = committed

\* run has read the new snapshot while the subscriber waits for the mutex.
C6_Witness == runPc = "unlock" /\ copied = StatusA /\ subPc = "lock"

\* The triple written for element i of the last message.
Triple(i) ==
    LET d == Deref(m).Data IN <<d[3 * i - 2], d[3 * i - 1], d[3 * i]>>

\* C7: in the message built from a strand buffer, element i is (0,0,0) when
\* its alpha is 0 and its own red, green and blue otherwise.
C7_AlphaZeroIsBlack ==
    m # NilPtr =>
        /\ Len(Deref(m).Data) = 3 * Len(strandData)
        /\ \A i \in 1..Len(strandData) :
             LET c == strandData[i]
             IN  Triple(i) = IF c.A = 0 THEN <<0, 0, 0>> ELSE <<c.R, c.G, c.B>>

C7_Witness ==
    /\ m # NilPtr
    /\ strandData = <<[R |-> 255, G |-> 1, B |-> 1, A |-> 0],
                      [R |-> 1, G |-> 255, B |-> 0, A |-> 1]>>

\* C8: Connect is called once; after a failure fc.oc stays nil, the failure
\* is reported once, RunLoop is started and run enters its loop, and every
\* Send returns "not online" without using the transport.  On a connection
\* Send of a nil message returns "invalid message" and a transport failure
\* is returned as an error.
C8_ConnectOnce ==
    /\ connects = IF runPc = "connect" THEN 0 ELSE 1
    /\ (runPc # "connect" /\ oc = Nil) =>
         /\ connReports = IF runPc = "connReport" THEN 0 ELSE 1
         /\ runPc \notin {"connReport", "spawn"} => rlPc # "idle"
         /\ lastSend # NilPtr =>
              Deref(lastSend) = [err |-> "fadecandy server not online",
                                 transport |-> FALSE]
    /\ oc # Nil => connReports = 0
    /\ \A t \in BOOLEAN :
         Send("client", NilPtr, t) = [err |-> "invalid message", transport |-> FALSE]
    /\ Send("client", Ptr(NewMessage(<<>>)), FALSE).err = "transport"

\* After a failed Connect both loops run and a Send has been refused.
C8_Witness ==
    /\ oc = Nil /\ connReports = 1 /\ lastSend # NilPtr
    /\ runPc = "lock" /\ rlPc = "select"

\* C9: every error report completes: the error is handed to errorC or
\* written to the local fallback, and the reporting loop goes on.
C9_ReportsComplete ==
    /\ (runPc = "connReport") ~> (runPc = "spawn")
    /\ (runPc = "report") ~> (runPc = "select")
    /\ (rlPc \in {"sendErrStrands", "sendErrData"}) ~> (rlPc \in {"select", "sweep"})

\* C10: when a sweep has ended, every strand of non-zero length whose
\* buffer was retrieved has had exactly one send attempt, and no other
\* strand has had any.
C10_SweepVisitsEveryStrand ==
    (rlPc = "select" /\ deviceStrands # <<>>) =>
        \A ds \in StrandIds(deviceStrands) :
            attempts[ds] = IF StrandLen(deviceStrands, ds) # 0 /\ ds \notin dataErrs
                           THEN 1 ELSE 0

\* A sweep whose first send failed and whose second succeeded.
C10_Witness ==
    /\ rlPc = "select" /\ sends = <<FALSE, TRUE>>
    /\ attempts[<<1, 1>>] = 1 /\ attempts[<<1, 2>>] = 1

\* C11: when GetSeqRunner or GetUniverses fails as RunLoop starts, RunLoop
\* has returned that error with errorC closed, and has neither advanced the
\* sequencer nor attempted a send.
C11_StartupFailureReturns ==
    rlErr # Nil =>
        /\ rlPc = "done"
        /\ errorCclosed
        /\ ~advanced
        /\ lastSend = NilPtr /\ sends = <<>> /\ m = NilPtr

C11_Witness ==
    rlErr = "GetUniverses" /\ rlPc = "done" /\ errorCclosed /\ ~advanced

\* RunLoop is past its startup and has not returned.
Streaming == rlPc \in {"select", "sweep", "sendErrStrands", "sendErrData"}

\* The last call of Send returned an error.
LastSendFailed == lastSend # NilPtr /\ Deref(lastSend).err # Nil

\* C12: while no shutdown is signalled and the device keeps failing, RunLoop
\* never returns once it streams and never waits forever: every sweep ends
\* at the timer wait and a new sweep starts from it again and again; a send
\* without a connection always fails, and after a failed send the interval
\* is the slow one.
C12_StreamsUnderFailure ==
    /\ [](advanced => Streaming)
    /\ (Streaming ~> rlPc = "select")
    /\ (Streaming ~> rlPc \in {"sweep", "sendErrStrands"})
    /\ [](oc = Nil /\ lastSend # NilPtr => LastSendFailed)
    /\ [](LastSendFailed => refresh = Slow)

C12_Witness ==
    /\ rlPc = "select" /\ advanced
    /\ oc = Nil /\ LastSendFailed /\ refresh = Slow
    /\ attempts[<<2, 1>>] = 1

\* C13: a failed render does not stop run: the step that follows the failure
\* hands the error to errorC or writes it to the fallback, and run is back
\* at its select, alive, for the next tick.
C13_RenderErrorNotFatal ==
    [][runPc = "report" =>
         /\ ~crashed'
         /\ runPc' # "report" =>
               /\ runPc' = "select"
               /\ \/ errorC' = Append(errorC, "render")
                  \/ stderr' = "render"]_vars

\* A step in which RunLoop calls Send.
SendStep == \E ds \in DOMAIN attempts : attempts'[ds] = attempts[ds] + 1

\* A step in which run calls test8LED.
RenderStep == rendered' # rendered

\* C14 as stated: once quitC is closed no step calls Send and no step
\* invokes the render.
C14_NoWorkAfterShutdown == [][quitC => ~SendStep /\ ~RenderStep]_vars

\* C14, amended: the loops return on quitC only from their select, with the
\* sweep or tick that was in flight carried out: when RunLoop has returned
\* on quitC every strand of its last sweep was visited, and when run has
\* returned it holds no lock and its last sample went through the
\* fingerprint test.
C14_ExitsOnlyAtSelect ==
    /\ (rlPc = "done" /\ rlErr = Nil) =>
          /\ quitC /\ sweep = <<>>
          /\ \A ds \in StrandIds(deviceStrands) :
                attempts[ds] = IF StrandLen(deviceStrands, ds) # 0
                                  /\ ds \notin dataErrs
                               THEN 1 ELSE 0
    /\ runPc = "done" =>
          /\ quitC /\ mutex # "run"
          /\ last = <<>> \/ last = Md5(copied, 1)

\* Both loops have returned on quitC after a complete sweep and a render.
C14_Witness ==
    /\ quitC /\ rlPc = "done" /\ rlErr = Nil /\ runPc = "done"
    /\ attempts[<<1, 1>>] = 1 /\ attempts[<<2, 1>>] = 1
    /\ rendered # NilPtr /\ last = Md5(copied, 1)

\* C15: until the first tick has sampled, last is the empty byte sequence,
\* which differs from the fingerprint of every snapshot; so the first tick
\* invokes the render, also when it samples the empty snapshot because no
\* home status has arrived.
C15_FirstTickRenders ==
    /\ ticks = <<>> => last = <<>> /\ rendered = NilPtr /\ renders = 0
    /\ HasChanged(<<>>, Md5(copied, 1))
    /\ Len(ticks) >= 1 => renders >= 1 /\ rendered # NilPtr /\ last # <<>>
    /\ Len(ticks) = 1 => renders = 1 /\ last = ticks[1]

\* The first tick sampled the empty snapshot before any home status.
C15_Witness ==
    /\ ticks = <<FpA>> /\ renders = 1 /\ rendered = Ptr(EmptyStatus)
    /\ lastHome = NilPtr /\ last = FpA

\* C16: the message built from a strand buffer of n elements has the
\* length field 3 * n and carries one triple per element, in element
\* order, for every n.
C16_LengthIsThreeN ==
    m # NilPtr =>
        /\ Deref(m).Length = 3 * Len(strandData)
        /\ Len(Deref(m).Data) = 3 * Len(strandData)
        /\ \A i \in 1..Len(strandData) : Triple(i) = PixelColor(strandData[i])

\* C17: close(quitC) is never executed twice, whatever the order of the
\* signal and the caller's close; and when the supervising goroutine has
\* returned, by the signal or because quitC was closed, quitC is closed and
\* the context is cancelled.
C17_QuitClosedOnce ==
    /\ Len(closes) <= 1
    /\ supPc = "done" => entryQuitC /\ quitC

\* C18: the interval before the next sweep depends only on the last send
\* attempted so far: slow when it failed, fast when it succeeded or when
\* there was none; and a step that attempts no send, so a whole sweep
\* without a send too, leaves the interval as it was.
C18_PacingByLastAttempt ==
    /\ [](refresh = IF LastSendFailed THEN Slow ELSE Fast)
    /\ [][~SendStep => refresh' = refresh]_vars

\* A sweep over zero-length strands has ended after a failed send.
C18_Witness ==
    /\ rlPc = "select" /\ refresh = Slow /\ LastSendFailed
    /\ deviceStrands = << <<0>>, <<0, 0>> >> /\ attempts = NoAttempts

\* C19: the fingerprint is stored before the render is invoked, so the
\* stored fingerprint is always the one of the snapshot last passed to the
\* render, also while the failure of that render is being reported; and a
\* tick that samples the stored fingerprint again invokes no render, so a
\* failed render is not retried until the fingerprint changes.
C19_StoredBeforeRender ==
    /\ [](last = IF rendered = NilPtr THEN <<>> ELSE Md5(Deref(rendered), 1))
    /\ [](runPc = "report" => last = Md5(copied, 1))
    /\ [][(runPc = "unlock" /\ runPc' # "unlock" /\ Md5(copied, 1) = last)
             => ~RenderStep /\ runPc' = "select"]_vars

\* The first render failed and the next tick sampled the same fingerprint.
C19_Witness ==
    /\ errorC = <<"render">> /\ ticks = <<FpB, FpB>> /\ renders = 1
    /\ rendered = Ptr(StatusA) /\ last = FpB /\ runPc = "select"

==============================================================================
